---- MODULE Spec2Model ----
(***************************************************************************)
(* Chat session controller of jotai-ai (makeChatAtoms).                    *)
(*                                                                         *)
(* JavaScript runs one handler at a time: every action below is one        *)
(* synchronous run of the controller, from the caller's operation or a     *)
(* network event up to the next await.  An exchange is one run of          *)
(* triggerRequest: its request, the stream of its response, and its end.   *)
(***************************************************************************)
EXTENDS Integers, Sequences, FiniteSets, TLC

\* ---------------------------------------------------------------- bounds
MaxReq == 2        \* requests issued in one run
MaxEv == 2         \* stream events delivered in one run
MaxTools == 1      \* distinct toolCallIds
MaxStepsOpt == 2   \* the maxSteps option ranges over 1..MaxStepsOpt
MaxReqToolCall == 3 \* requests issued in one run of a session with an onToolCall handler
MaxToolCalls == 2  \* distinct toolCallIds of the tool calls given to onToolCall
MaxReqCA == 2      \* requests issued in one run of chatAtoms
MaxEvCA == 2       \* stream events delivered in one run of chatAtoms
MaxToolRoundtripsOpt == 2  \* the maxToolRoundtrips option ranges over 0..MaxToolRoundtripsOpt
MaxReqLegacy == 3  \* requests issued in one run of the legacy chatAtoms
MaxEvLegacy == 2   \* stream chunks delivered in one run of the legacy chatAtoms
MaxReqMCA == 2     \* requests issued in one run of the earlier makeChatAtoms
MaxEvMCA == 3      \* stream events delivered in one run of the earlier makeChatAtoms

\* ------------------------------------------------------------- constants
Null == 0          \* abortControllerAtom holds null
Undef == -1        \* extractMaxToolInvocationStep(undefined) is undefined
Detached == -2     \* abortControllerAtom holds a controller no exchange uses

ToolIds == 1..MaxTools
Largest(S) == CHOOSE n \in S : \A m \in S : m <= n
Exchanges == 1..Largest({MaxReq, MaxReqMCA, MaxReqToolCall, MaxReqCA, MaxReqLegacy})
NoError == "undefined"

\* ------------------------------------------------------------- messages
\* A message is [role, oid, parts]; oid names the object that holds the parts of
\* an assistant message (two messages with one oid share their part objects).
TextPart(t) ==
  [type |-> "text", id |-> 0, state |-> "none", step |-> 0, text |-> t, result |-> "none"]
StepStartPart ==
  [type |-> "step-start", id |-> 0, state |-> "none", step |-> 0, text |-> <<>>, result |-> "none"]
ToolPart(id, st, stp, res) ==
  [type |-> "tool-invocation", id |-> id, state |-> st, step |-> stp, text |-> <<>>, result |-> res]

Msg(role, oid, parts) == [role |-> role, oid |-> oid, parts |-> parts]
NoMsg == Msg("none", 0, <<>>)

IsTool(p) == p.type = "tool-invocation"
ToolInvocations(m) == SelectSeq(m.parts, IsTool)
Range(s) == {s[i] : i \in 1..Len(s)}
MaxOf(S) == CHOOSE x \in S : \A y \in S : y <= x
Last(s) == s[Len(s)]
ButLast(s) == SubSeq(s, 1, Len(s) - 1)

\* Returns the number of trailing assistant messages in the array.
RECURSIVE countTrailingAssistantMessages(_)
countTrailingAssistantMessages(ms) ==
  IF ms = <<>> \/ Last(ms).role # "assistant" THEN 0
  ELSE 1 + countTrailingAssistantMessages(ButLast(ms))

\* utils/index.ts: at least one tool invocation part, all in state result.
isAssistantMessageWithCompletedToolCalls(m) ==
  /\ m.role = "assistant"
  /\ ToolInvocations(m) # <<>>
  /\ \A p \in Range(ToolInvocations(m)) : p.state = "result"

\* @ai-sdk/ui-utils as called by makeChatAtoms: highest step of the message's
\* tool invocations, undefined without a message or without tool invocations.
extractMaxToolInvocationStep(m) ==
  IF m = NoMsg \/ ToolInvocations(m) = <<>> THEN Undef
  ELSE MaxOf({p.step : p \in Range(ToolInvocations(m))})

LastStepStartIndex(parts) ==
  LET I == {i \in 1..Len(parts) : parts[i].type = "step-start"}
  IN IF I = {} THEN 0 ELSE MaxOf(I)

\* @ai-sdk/ui-utils: the tool invocations of the message's last step.
LastStepToolInvocations(m) ==
  SelectSeq(SubSeq(m.parts, LastStepStartIndex(m.parts) + 1, Len(m.parts)), IsTool)

\* The check over the tool invocations of the whole message, not of its last step.
completedToolCallsOfWholeMessage(m) ==
  /\ m.role = "assistant"
  /\ ToolInvocations(m) # <<>>
  /\ \A p \in Range(ToolInvocations(m)) : p.state = "result"

uiIsAssistantMessageWithCompletedToolCalls(m) ==
  /\ m.role = "assistant"
  /\ LastStepToolInvocations(m) # <<>>
  /\ \A p \in Range(LastStepToolInvocations(m)) : p.state = "result"

\* The condition without the test that the feature is enabled.
shouldResubmitMessagesAnyMaxSteps(originalMaxToolInvocationStep, originalMessageCount, maxSteps_, ms) ==
  /\ ms # <<>>
  /\ \/ Len(ms) > originalMessageCount
     \/ extractMaxToolInvocationStep(Last(ms)) # originalMaxToolInvocationStep
  /\ uiIsAssistantMessageWithCompletedToolCalls(Last(ms))
  /\ LET s == extractMaxToolInvocationStep(Last(ms))
     IN (IF s = Undef THEN 0 ELSE s) < maxSteps_

shouldResubmitMessages(originalMaxToolInvocationStep, originalMessageCount, maxSteps_, ms) ==
  /\ maxSteps_ > 1
  /\ ms # <<>>
  /\ \/ Len(ms) > originalMessageCount
     \/ extractMaxToolInvocationStep(Last(ms)) # originalMaxToolInvocationStep
  /\ uiIsAssistantMessageWithCompletedToolCalls(Last(ms))
  /\ LET s == extractMaxToolInvocationStep(Last(ms))
     IN (IF s = Undef THEN 0 ELSE s) < maxSteps_

\* updateToolCallResult: the first tool invocation part of the message with
\* this toolCallId gets state result.
FirstToolIndex(parts, id) ==
  LET I == {i \in 1..Len(parts) : IsTool(parts[i]) /\ parts[i].id = id}
  IN IF I = {} THEN 0 ELSE CHOOSE i \in I : \A j \in I : i <= j

SetToolState(parts, id, st, res) ==
  LET i == FirstToolIndex(parts, id)
  IN IF i = 0 THEN parts ELSE [parts EXCEPT ![i].state = st, ![i].result = res]

\* The result recorded as one more part of the message, not in the part of the call.
updateToolCallResultAppending(m, id, res) ==
  IF FirstToolIndex(m.parts, id) = 0 THEN m
  ELSE [m EXCEPT !.parts = Append(@, ToolPart(id, "result", 0, res))]

updateToolCallResult(m, id, res) ==
  [m EXCEPT !.parts = SetToolState(m.parts, id, "result", res)]

\* calculateLanguageModelUsage of the decoder: the total is the sum.
calculateLanguageModelUsage(promptTokens, completionTokens) ==
  [promptTokens |-> promptTokens, completionTokens |-> completionTokens,
   totalTokens |-> promptTokens + completionTokens]

\* The usage of a stream without a finish message: NaN for every count.
NoUsage == [promptTokens |-> Undef, completionTokens |-> Undef, totalTokens |-> Undef]

\* The finish message of the streams: reason stop, 3 prompt tokens, 1 completion token.
FinishMessage == [finishReason |-> "stop", promptTokens |-> 3, completionTokens |-> 1]

\* The headers and the extra body fields of a request: a value, or Unset, for
\* each name (names other than id, messages and data).
Names == {"k1", "k2"}
Unset == "unset"
NoEntries == [k \in Names |-> Unset]
SessionEntries == [Names -> {Unset, "session"}]
CallEntries == [Names -> {Unset, "call"}]

\* { ...a, ...b } with the entries of a winning.
OverlayKeepingFirst(a, b) == [k \in Names |-> IF a[k] # Unset THEN a[k] ELSE b[k]]

\* { ...a, ...b }: the object spread, later entries win.
Overlay(a, b) == [k \in Names |-> IF b[k] # Unset THEN b[k] ELSE a[k]]

\* ChatRequestOptions: the headers and body given with one call; the calls
\* give the same names as headers and as fields of the body.
ChatRequestOptions == {[headers |-> h, body |-> h] : h \in CallEntries}
NoChatRequestOptions == [headers |-> NoEntries, body |-> NoEntries]

\* The body handed to callChatApi: what the prepareRequestBody function
\* returned (a value of its own, 'test-request-body' in the tests), or the chat
\* id, messages and data with the session's body and the call's body spread
\* over them.
PreparedBody == [prepared |-> TRUE, id |-> "none", entries |-> NoEntries]
NoBody == [prepared |-> FALSE, id |-> "none", entries |-> NoEntries]
requestBody(prepare, chatId_, body_, requestBody_) ==
  IF prepare THEN PreparedBody
  ELSE [prepared |-> FALSE, id |-> chatId_, entries |-> Overlay(body_, requestBody_)]

\* ---------------------------------------------------------------- state
VARIABLES
  messages,         \* messagesAtom
  status,           \* statusAtom
  isLoading,        \* isLoadingAtom
  error,            \* errorAtom (NoError: undefined)
  abortController,  \* abortControllerAtom: Null, or the exchange whose controller it holds
  ex,               \* the runs of triggerRequest: closure variables and stream decoder state
  nreq,             \* requests issued so far
  nev,              \* stream events delivered so far
  last,             \* the handler that ran last, and what it wrote on its way
  maxSteps,         \* maxStepsAtom
  keepLastMessageOnError,  \* keepLastMessageonErrorAtom
  onErrorFn,        \* onErrorAtom holds a handler
  onFinishFn,       \* onFinishAtom holds a handler
  headersAtom,      \* headersAtom: the session's headers
  bodyAtom,         \* bodyAtom: the session's extra body
  prepareRequestBodyFn,  \* prepareRequestBodyAtom holds a function
  onToolCallFn,     \* onToolCallAtom holds a handler
  maxToolRoundtrips,  \* chatOptions.maxToolRoundtrips of chatAtoms
  onFunctionCallFn,  \* chatOptions.experimental_onFunctionCall of the legacy chatAtoms is given
  input,            \* inputAtom
  streamData,       \* streamDataAtom (<<>>: undefined)
  chatId,           \* chatIdAtom
  initialMessages,  \* initialMessagesAtom
  initialInput      \* initialInputAtom

\* The requests of one run: more of them in a session with an onToolCall
\* handler, whose chains of follow-ups are longer.
ReqBound == IF onToolCallFn THEN MaxReqToolCall ELSE MaxReq

vars == <<messages, status, isLoading, error, abortController, ex, nreq, nev, last,
          maxSteps, keepLastMessageOnError, onErrorFn, onFinishFn,
          headersAtom, bodyAtom, prepareRequestBodyFn, onToolCallFn, maxToolRoundtrips,
          onFunctionCallFn,
          input, streamData, chatId, initialMessages, initialInput>>

IdleEx ==
  [phase |-> "idle", by |-> "none", auto |-> FALSE, requestType |-> "none",
   request |-> [method |-> "none", url |-> "none"],
   prev |-> <<>>, messageCount |-> 0, maxStep |-> Undef,
   existingData |-> <<>>, data |-> <<>>, deltas |-> <<>>,
   finishReason |-> "unknown", usage |-> NoUsage,
   headers |-> NoEntries, body |-> NoBody, streamed |-> "none",
   msg |-> NoMsg, step |-> 0, cur |-> 0, replace |-> FALSE, updated |-> FALSE]

InFlightPhases == {"sent", "open", "abortingFetch", "abortingStream"}
InFlight(x) == x.phase \in InFlightPhases

\* An exchange that ended keeps nothing of its closure.
EndedEx == [IdleEx EXCEPT !.phase = "ended"]

\* last.input: what the network handed to the handler (the type of the stream
\* event, the body of the response, the text of the error); last.trail: the
\* values written to statusAtom and overwritten before the handler returned;
\* last.onError: the onError handler was invoked; last.id: the toolCallId given
\* to addToolResult; last.thrown: the promise the operation returned to its
\* caller rejects; last.opts: the options given to useChat.
\* last.finish: the call of the onFinish handler.
NoOptions == [id |-> "none", given |-> FALSE, initialMessages |-> <<>>, initialInput |-> "none"]
NoFinish == [called |-> FALSE, message |-> NoMsg, finishReason |-> "none", usage |-> NoUsage]

Ran(op, e) ==
  [op |-> op, e |-> e, id |-> 0, input |-> "none", trail |-> <<>>, onError |-> FALSE,
   thrown |-> FALSE, opts |-> NoOptions, finish |-> NoFinish,
   chatRequest |-> NoChatRequestOptions, onToolCall |-> FALSE,
   functionCallResponse |-> "none"]

\* The atoms as one record, so that a handler is a composition of its steps.
Cur(op, e) ==
  [messages |-> messages, status |-> status, isLoading |-> isLoading, error |-> error,
   abortController |-> abortController, ex |-> ex, nreq |-> nreq,
   input |-> input, streamData |-> streamData,
   last |-> Ran(op, e), wrote |-> FALSE]

\* The atoms the handlers write.
Put(s) ==
  /\ s.nreq <= ReqBound
  /\ messages' = s.messages
  /\ status' = s.status
  /\ isLoading' = s.isLoading
  /\ error' = s.error
  /\ abortController' = s.abortController
  /\ ex' = s.ex
  /\ nreq' = s.nreq
  /\ input' = s.input
  /\ streamData' = s.streamData
  /\ last' = s.last
  /\ UNCHANGED <<maxSteps, keepLastMessageOnError, onErrorFn, onFinishFn,
                 headersAtom, bodyAtom, prepareRequestBodyFn, onToolCallFn,
                 maxToolRoundtrips, onFunctionCallFn>>

Set(s) ==
  /\ Put(s)
  /\ UNCHANGED <<chatId, initialMessages, initialInput>>

SetStatus(s, v) ==
  [s EXCEPT !.status = v, !.wrote = TRUE,
            !.last.trail = IF s.wrote THEN Append(@, s.status) ELSE @]

\* The object identities in use: a fresh one is the least that is not.
UsedOids(s) ==
  {s.messages[i].oid : i \in 1..Len(s.messages)}
  \cup UNION {{s.ex[e].prev[i].oid : i \in 1..Len(s.ex[e].prev)} : e \in Exchanges}
FreshOid(s) == CHOOSE n \in 1..(Cardinality(UsedOids(s)) + 1) : n \notin UsedOids(s)

Init ==
  /\ messages = <<>>
  /\ status = "ready"
  /\ isLoading = FALSE
  /\ error = NoError
  /\ abortController = Null
  /\ ex = [e \in Exchanges |-> IdleEx]
  /\ nreq = 0
  /\ nev = 0
  /\ last = Ran("init", 0)
  /\ input = ""
  /\ streamData = <<>>
  /\ chatId = "id1"
  /\ initialMessages = <<>>
  /\ initialInput = ""
  /\ headersAtom = NoEntries
  /\ bodyAtom = NoEntries
  /\ prepareRequestBodyFn = FALSE
  /\ onToolCallFn = FALSE
  /\ maxToolRoundtrips = 0
  /\ onFunctionCallFn = FALSE
  /\ onFinishFn = FALSE
  /\ maxSteps \in 1..MaxStepsOpt
  /\ keepLastMessageOnError \in BOOLEAN
  /\ onErrorFn = TRUE

\* ------------------------------------------------------- triggerRequest
\* Every request sent as a POST to the api.
callChatApiRequestPost(requestType) == [method |-> "POST", url |-> "<api>"]

\* callChatApi: a resume is a GET of the api with the chat id as its query, any
\* other request a POST of the messages to the api.
callChatApiRequest(requestType) ==
  IF requestType = "resume" THEN [method |-> "GET", url |-> "<api>?chatId=<id>"]
  ELSE [method |-> "POST", url |-> "<api>"]

\* Lines 357-371: the synchronous part, up to the fetch of callChatApi.
triggerRequest(s, chatRequestMessages, requestType, auto) ==
  LET e == s.nreq + 1
      messageCount == Len(s.messages)
      prevUIMessages == chatRequestMessages
      maxStep == extractMaxToolInvocationStep(
                   IF messageCount \in 1..Len(prevUIMessages)
                   THEN prevUIMessages[messageCount] ELSE NoMsg)
      s1 == [SetStatus(s, "submitted") EXCEPT
               !.isLoading = TRUE, !.error = NoError, !.abortController = e, !.nreq = e]
  IN IF e > ReqBound THEN [s EXCEPT !.nreq = e]
     ELSE [s1 EXCEPT !.ex[e] =
             [IdleEx EXCEPT !.phase = "sent", !.by = s.last.op,
                            !.auto = auto, !.requestType = requestType,
                            !.request = callChatApiRequest(requestType),
                            !.headers = Overlay(headersAtom, s.last.chatRequest.headers),
                            !.body = requestBody(prepareRequestBodyFn, chatId, bodyAtom,
                                                 s.last.chatRequest.body),
                            !.prev = prevUIMessages,
                            !.messageCount = messageCount, !.maxStep = maxStep,
                            !.existingData = s.streamData]]

\* Lines 395-406: auto-submit when all tool calls in the last assistant
\* message have results.
autoSubmit(s, messageCount, maxStep, requestType) ==
  IF shouldResubmitMessages(maxStep, messageCount, maxSteps, s.messages)
  THEN triggerRequest(s, s.messages, requestType, TRUE)
  ELSE s

\* Lines 377-378, 391-406: processResponseStream returned.
requestSucceeded(s, e) ==
  LET x == s.ex[e]
      s1 == [SetStatus(s, "ready") EXCEPT
               !.abortController = Null, !.isLoading = FALSE, !.ex[e] = EndedEx]
  IN autoSubmit(s1, x.messageCount, x.maxStep, x.requestType)

\* Lines 380-384, 391-393: the AbortError branch returns before the auto-submit.
requestAborted(s, e) ==
  [SetStatus(s, "ready") EXCEPT
     !.abortController = Null, !.isLoading = FALSE, !.ex[e] = EndedEx]

\* Lines 386-406: an Error other than AbortError.
requestFailed(s, e, err) ==
  LET x == s.ex[e]
      s1 == [SetStatus(s, "error") EXCEPT
               !.error = err, !.last.onError = onErrorFn, !.isLoading = FALSE,
               !.ex[e] = EndedEx]
  IN autoSubmit(s1, x.messageCount, x.maxStep, x.requestType)

\* Lines 315-317.
restoreMessagesOnFailure(s, e) ==
  IF keepLastMessageOnError THEN [s EXCEPT !.messages = s.ex[e].prev] ELSE s

\* ------------------------------------------- the response and its stream
\* callChatApi's decoder (processChatResponse): the assistant message it
\* builds starts as a deep copy of the request's last message when that is an
\* assistant message (the update then replaces it), and empty otherwise.
openStream(x) ==
  LET lastMessage == IF x.prev = <<>> THEN NoMsg ELSE Last(x.prev)
      replaceLastMessage == lastMessage.role = "assistant"
      top == extractMaxToolInvocationStep(lastMessage)
  IN [x EXCEPT !.phase = "open",
               !.replace = replaceLastMessage,
               !.msg = IF replaceLastMessage THEN [lastMessage EXCEPT !.oid = 0]
                       ELSE Msg("assistant", 0, <<>>),
               !.step = IF replaceLastMessage THEN 1 + (IF top = Undef THEN 0 ELSE top) ELSE 0,
               !.cur = 0]

TextDeltas == {"a"}
StreamEvents ==
  [type : {"text"}, id : {0}, delta : TextDeltas]
  \cup [type : {"tool-call-streaming-start", "tool-call", "tool-result"}, id : ToolIds, delta : {"none"}]
  \cup [type : {"start-step", "finish-step"}, id : {0}, delta : {"none"}]

ToolStateOf(m, id) ==
  LET i == FirstToolIndex(m.parts, id)
  IN IF i = 0 THEN "absent" ELSE m.parts[i].state

\* The events a server sends for a message: a tool call is announced once, and
\* a result follows its call.
WellFormed(x, ev) ==
  CASE ev.type = "tool-call-streaming-start" -> ToolStateOf(x.msg, ev.id) = "absent"
    [] ev.type = "tool-call" -> ToolStateOf(x.msg, ev.id) \in {"absent", "partial-call"}
    [] ev.type = "tool-result" -> ToolStateOf(x.msg, ev.id) = "call"
    [] OTHER -> TRUE

\* The decoder with each text delta put in front of the text it has.
decodePrepending(x, ev) ==
  CASE ev.type = "text" ->
         IF x.cur = 0
         THEN [x EXCEPT !.msg.parts = Append(@, TextPart(<<ev.delta>>)),
                        !.cur = Len(x.msg.parts) + 1]
         ELSE [x EXCEPT !.msg.parts[x.cur].text = <<ev.delta>> \o @]
    [] ev.type = "start-step" ->
         [x EXCEPT !.msg.parts = Append(@, StepStartPart)]
    [] ev.type = "finish-message" ->
         [x EXCEPT !.finishReason = FinishMessage.finishReason,
                   !.usage = calculateLanguageModelUsage(FinishMessage.promptTokens,
                                                         FinishMessage.completionTokens)]
    [] ev.type = "finish-step" ->
         [x EXCEPT !.step = @ + 1, !.cur = 0]
    [] OTHER -> x

\* The decoder's message after one event.
decode(x, ev) ==
  CASE ev.type = "text" ->
         IF x.cur = 0
         THEN [x EXCEPT !.msg.parts = Append(@, TextPart(<<ev.delta>>)),
                        !.cur = Len(x.msg.parts) + 1]
         ELSE [x EXCEPT !.msg.parts[x.cur].text = Append(@, ev.delta)]
    [] ev.type = "tool-call-streaming-start" ->
         [x EXCEPT !.msg.parts = Append(@, ToolPart(ev.id, "partial-call", x.step, "none"))]
    [] ev.type = "tool-call" ->
         IF ToolStateOf(x.msg, ev.id) = "absent"
         THEN [x EXCEPT !.msg.parts = Append(@, ToolPart(ev.id, "call", x.step, "none"))]
         ELSE [x EXCEPT !.msg.parts = SetToolState(@, ev.id, "call", "none")]
    [] ev.type = "tool-result" ->
         [x EXCEPT !.msg.parts = SetToolState(@, ev.id, "result", "server-result")]
    [] ev.type = "start-step" ->
         [x EXCEPT !.msg.parts = Append(@, StepStartPart)]
    [] ev.type = "finish-message" ->
         [x EXCEPT !.finishReason = FinishMessage.finishReason,
                   !.usage = calculateLanguageModelUsage(FinishMessage.promptTokens,
                                                         FinishMessage.completionTokens)]
    [] OTHER -> \* finish-step
         [x EXCEPT !.step = @ + 1, !.cur = 0]

\* onUpdate without its set(statusAtom, 'streaming').
onUpdateWithoutStatus(s, e, message, replaceLastMessage) ==
  LET prevUIMessages == s.ex[e].prev
  IN [s EXCEPT !.messages =
        Append(IF replaceLastMessage THEN ButLast(prevUIMessages) ELSE prevUIMessages,
               message)]

\* onUpdate that appends the message whatever replaceLastMessage is.
onUpdateAppending(s, e, message, replaceLastMessage) ==
  LET prevUIMessages == s.ex[e].prev
      existingData == s.ex[e].existingData
      data == s.ex[e].data
      s1 == SetStatus(s, "streaming")
  IN [s1 EXCEPT !.messages = Append(prevUIMessages, message),
                !.streamData = IF data # <<>> THEN existingData \o data ELSE @]

\* Lines 326-345: onUpdate, called with a fresh copy of the decoder's message.
onUpdate(s, e, message, replaceLastMessage) ==
  LET prevUIMessages == s.ex[e].prev
      existingData == s.ex[e].existingData
      data == s.ex[e].data
      s1 == SetStatus(s, "streaming")
  IN [s1 EXCEPT !.messages =
        Append(IF replaceLastMessage THEN ButLast(prevUIMessages) ELSE prevUIMessages,
               message),
                !.streamData = IF data # <<>> THEN existingData \o data ELSE @]

\* The server answers 2xx: the decoder is set up on the response body.
Response(e) ==
  /\ ex[e].phase = "sent"
  /\ UNCHANGED nev
  /\ Set([Cur("Response", e) EXCEPT !.ex[e] = openStream(@)])

\* One event of the stream is decoded; every event but finish-step and
\* finish-message is followed by an update.  ex[e].deltas keeps the text deltas
\* as they arrive.
StreamEvent(e, ev) ==
  /\ ex[e].phase = "open"
  /\ nev < MaxEv
  /\ WellFormed(ex[e], ev)
  /\ nev' = nev + 1
  /\ LET x == [decode(ex[e], ev) EXCEPT
                 !.deltas = IF ev.type = "text" THEN Append(@, ev.delta) ELSE @]
         s0 == [Cur("StreamEvent", e) EXCEPT !.ex[e] = x, !.last.input = ev.type]
     IN IF ev.type \in {"finish-step", "finish-message"} THEN Set(s0)
        ELSE Set(onUpdate([s0 EXCEPT !.ex[e].updated = TRUE], e,
                          [x.msg EXCEPT !.oid = FreshOid(s0)], x.replace))

\* A tool-call part of the stream in a session with an onToolCall handler
\* (line 325): the decoder records the call and updates, awaits the handler,
\* records the result the handler returned and updates again.
ToolCallIds == 1..MaxToolCalls
ToolCallResult == "test-tool-response"
StreamToolCall(e, id) ==
  /\ onToolCallFn
  /\ ex[e].phase = "open"
  /\ nev < MaxEv
  /\ ToolStateOf(ex[e].msg, id) \in {"absent", "partial-call"}
  /\ nev' = nev + 1
  /\ LET ev == [type |-> "tool-call", id |-> id, delta |-> "none"]
         x1 == [decode(ex[e], ev) EXCEPT !.updated = TRUE]
         s0 == [Cur("StreamEvent", e) EXCEPT
                  !.ex[e] = x1, !.last.input = "tool-call", !.last.id = id,
                  !.last.onToolCall = TRUE]
         s1 == onUpdate(s0, e, [x1.msg EXCEPT !.oid = FreshOid(s0)], x1.replace)
         x2 == [x1 EXCEPT !.msg.parts = SetToolState(@, id, "result", ToolCallResult)]
         s2 == [s1 EXCEPT !.ex[e] = x2]
     IN Set(onUpdate(s2, e, [x2.msg EXCEPT !.oid = FreshOid(s2)], x2.replace))

\* A data part of the stream: the decoder collects its value, and the update
\* that follows hands over all the values collected.
StreamData(e) ==
  /\ ex[e].phase = "open"
  /\ nev < MaxEv
  /\ nev' = nev + 1
  /\ LET x == [ex[e] EXCEPT !.data = Append(@, "d"), !.updated = TRUE]
         s0 == [Cur("StreamEvent", e) EXCEPT !.ex[e] = x, !.last.input = "data"]
     IN Set(onUpdate(s0, e, [x.msg EXCEPT !.oid = FreshOid(s0)], x.replace))

\* The stream ends without a call of the onFinish handler.
onFinishNotCalled(s, e) == s

\* Lines 318-325: the decoder hands its message, the finish reason and the
\* usage to onFinish when the stream has ended.
onFinish(s, e) ==
  IF onFinishFn
  THEN [s EXCEPT !.last.finish =
          [called |-> TRUE, message |-> s.ex[e].msg,
           finishReason |-> s.ex[e].finishReason, usage |-> s.ex[e].usage]]
  ELSE s

\* The stream ends: callChatApi returns.
StreamDone(e) ==
  /\ ex[e].phase = "open"
  /\ UNCHANGED nev
  /\ Set(requestSucceeded(onFinish(Cur("StreamDone", e), e), e))

\* The message of the error callChatApi raises for a response outside 2xx:
\* (await response.text()) ?? 'Failed to fetch the chat response.'
\* where text() is a string, the empty string for an empty body, never null.
responseErrorMessage(text) == text

ResponseBodies == {"Not found", ""}

\* The server answers outside 2xx.
ResponseNotOk(e, body) ==
  /\ ex[e].phase = "sent"
  /\ UNCHANGED nev
  /\ Set(requestFailed(restoreMessagesOnFailure(
                         [Cur("ResponseNotOk", e) EXCEPT !.last.input = body], e),
                       e, responseErrorMessage(body)))

StreamErrorTexts == {"custom error message"}

\* The stream delivers an error event: the decoder throws an Error with its text.
StreamError(e, text) ==
  /\ ex[e].phase = "open"
  /\ UNCHANGED nev
  /\ Set(requestFailed([Cur("StreamError", e) EXCEPT !.last.input = text], e, text))

\* The rejection that follows abort() reaches triggerRequest's catch.
AbortError(e) ==
  /\ ex[e].phase \in {"abortingFetch", "abortingStream"}
  /\ UNCHANGED nev
  /\ Set(requestAborted(IF ex[e].phase = "abortingFetch"
                        THEN restoreMessagesOnFailure(Cur("AbortError", e), e)
                        ELSE Cur("AbortError", e), e))

\* ------------------------------------------------- the caller's operations
\* Lines 409-442 (appendAtom): the new user message is sent with the request;
\* the transcript itself is not written here.
appendOptions(o) ==
  LET newMessage == Msg("user", 0, <<>>)
      prevMessages == messages
  IN /\ nreq < ReqBound
     /\ UNCHANGED nev
     /\ Set(triggerRequest([Cur("append", nreq + 1) EXCEPT !.last.chatRequest = o],
                           Append(prevMessages, newMessage), "generate", FALSE))

\* append without options.
append == appendOptions(NoChatRequestOptions)

\* Lines 480-485: what appendAtom and reloadAtom do with a rejection of append
\* and reload.
maybeThrowOnError(s, err) ==
  [s EXCEPT !.error = err, !.last.onError = onErrorFn, !.last.thrown = ~onErrorFn]

\* prepareAttachmentsForRequest rejects what is neither a FileList nor an array.
InvalidAttachments == "Invalid attachments type"

\* Lines 420-422, 495-497: append with attachments that cannot be prepared
\* rejects before it reads the transcript.
appendInvalidAttachments ==
  /\ UNCHANGED nev
  /\ Set(maybeThrowOnError(Cur("appendInvalidAttachments", 0), InvalidAttachments))

\* reload that resubmits the transcript with its last assistant message.
reloadKeepingLastMessage ==
  LET s0 == [Cur("reload", nreq + 1) EXCEPT !.error = NoError]
  IN /\ UNCHANGED nev
     /\ IF messages = <<>> THEN Set([s0 EXCEPT !.last.e = 0])
        ELSE Set(triggerRequest(s0, messages, "generate", FALSE))

\* Lines 444-478 (reloadAtom).
reloadOptions(o) ==
  LET s0 == [Cur("reload", nreq + 1) EXCEPT !.error = NoError, !.last.chatRequest = o]
  IN /\ UNCHANGED nev
     /\ IF messages = <<>> THEN Set([s0 EXCEPT !.last.e = 0])
        ELSE IF Last(messages).role = "assistant"
        THEN LET lastRemovedMessages == ButLast(messages)
             IN Set(triggerRequest([s0 EXCEPT !.messages = lastRemovedMessages],
                                   lastRemovedMessages, "generate", FALSE))
        ELSE Set(triggerRequest(s0, messages, "generate", FALSE))

\* reload without options.
reload == reloadOptions(NoChatRequestOptions)

\* Lines 506-512 (stopAtom): abort() of the controller the atom holds.
stop ==
  /\ UNCHANGED nev
  /\ IF abortController = Null THEN Set(Cur("stop", 0))
     ELSE LET e == abortController
              ph == ex[e].phase
          IN Set([Cur("stop", e) EXCEPT
                    !.abortController = Null,
                    !.ex[e].phase = CASE ph = "sent" -> "abortingFetch"
                                      [] ph = "open" -> "abortingStream"
                                      [] OTHER -> ph])

\* Lines 513-517 (resumeAtom).
resume ==
  /\ UNCHANGED nev
  /\ Set(triggerRequest(Cur("resume", nreq + 1), messages, "resume", FALSE))

\* resetAtom that leaves the input and the streaming data as they are.
resetAtomMessagesOnly(s, initialMessages_, initialInput_) ==
  [SetStatus(s, "ready") EXCEPT
     !.messages = initialMessages_,
     !.isLoading = FALSE, !.error = NoError, !.abortController = Null]

\* Lines 518-527 (resetAtom): RESET gives messagesAtom and inputAtom the values
\* of initialMessagesAtom and initialInputAtom.
resetAtom(s, initialMessages_, initialInput_) ==
  [SetStatus(s, "ready") EXCEPT
     !.messages = initialMessages_, !.input = initialInput_, !.streamData = <<>>,
     !.isLoading = FALSE, !.error = NoError, !.abortController = Null]

reset ==
  /\ UNCHANGED nev
  /\ Set(resetAtom(Cur("reset", 0), initialMessages, initialInput))

\* use-chat.ts: setInput and handleInputChange.
Inputs == {"", "hi"}
setInput(v) ==
  /\ UNCHANGED nev
  /\ Set([Cur("setInput", 0) EXCEPT !.input = v])

\* The options a render of useChat is given; "none" is an option left out,
\* and initialMessages is one when given is FALSE.
ChatIds == {"id1", "id2"}
UseChatOptions ==
  {o \in [id : ChatIds \cup {"none"},
          given : BOOLEAN,
          initialMessages : {<<>>, <<Msg("user", 0, <<>>)>>},
          initialInput : Inputs \cup {"none"}] :
     ~o.given => o.initialMessages = <<>>}

\* JavaScript's truthiness of an option that is a string.
Truthy(v) == v # "none" /\ v # ""

\* use-chat.ts lines 271-288: a render of useChat with the options opts.  Each
\* of the three tests resets all when it finds its option changed.
useChat(opts) ==
  LET idChanged == Truthy(opts.id) /\ opts.id # chatId
      messagesChanged == opts.given /\ opts.initialMessages # initialMessages
      inputChanged == Truthy(opts.initialInput) /\ opts.initialInput # initialInput
      im == IF messagesChanged THEN opts.initialMessages ELSE initialMessages
      ii == IF inputChanged THEN opts.initialInput ELSE initialInput
      s0 == Cur("useChat", 0)
      s1 == IF idChanged THEN resetAtom(s0, initialMessages, initialInput) ELSE s0
      s2 == IF messagesChanged THEN resetAtom(s1, im, initialInput) ELSE s1
      s3 == IF inputChanged THEN resetAtom(s2, im, ii) ELSE s2
  IN /\ UNCHANGED nev
     /\ chatId' = IF idChanged THEN opts.id ELSE chatId
     /\ initialMessages' = im
     /\ initialInput' = ii
     /\ Put([s3 EXCEPT !.last.trail = <<>>,
                       !.last.opts = opts,
                       !.last.input = IF idChanged \/ messagesChanged \/ inputChanged
                                      THEN "reset" ELSE "none"])

ToolResults == {"test-result"}

\* The tool result reaches every holder of the last message's part objects:
\* the request messages of the runs that were started from this transcript.
shareToolResult(prevUIMessages, oid, toolCallId, result) ==
  [i \in 1..Len(prevUIMessages) |->
     IF prevUIMessages[i].oid = oid /\ oid # 0
     THEN updateToolCallResult(prevUIMessages[i], toolCallId, result)
     ELSE prevUIMessages[i]]

\* Lines 529-569 (addToolResultAtom).
addToolResult(toolCallId, result) ==
  /\ messages # <<>>
  /\ UNCHANGED nev
  /\ LET lastMessage == updateToolCallResult(Last(messages), toolCallId, result)
         updatedMessages == Append(ButLast(messages), lastMessage)
         s1 == [Cur("addToolResult", 0) EXCEPT
                  !.last.id = toolCallId, !.last.input = result,
                  !.messages = updatedMessages,
                  !.ex = [e \in Exchanges |->
                            [ex[e] EXCEPT !.prev =
                               shareToolResult(@, lastMessage.oid, toolCallId, result)]]]
     IN IF status = "submitted" \/ status = "streaming" THEN Set(s1)
        ELSE IF uiIsAssistantMessageWithCompletedToolCalls(lastMessage)
        THEN Set(triggerRequest(s1, updatedMessages, "generate", FALSE))
        ELSE Set(s1)

Next ==
  \/ append
  \/ reload
  \/ stop
  \/ resume
  \/ reset
  \/ \E id \in ToolIds, r \in ToolResults : addToolResult(id, r)
  \/ \E e \in Exchanges : Response(e)
  \/ \E e \in Exchanges, ev \in StreamEvents : StreamEvent(e, ev)
  \/ \E e \in Exchanges : StreamDone(e)
  \/ \E e \in Exchanges, body \in ResponseBodies : ResponseNotOk(e, body)
  \/ \E e \in Exchanges, text \in StreamErrorTexts : StreamError(e, text)
  \/ \E e \in Exchanges : AbortError(e)

Spec == Init /\ [][Next]_vars

\* The sessions whose caller never resets: any sequence of append, reload,
\* resume, addToolResult, stop and the events of the requests.
NextNoReset ==
  \/ append
  \/ reload
  \/ stop
  \/ resume
  \/ \E id \in ToolIds, r \in ToolResults : addToolResult(id, r)
  \/ \E e \in Exchanges : Response(e)
  \/ \E e \in Exchanges, ev \in StreamEvents : StreamEvent(e, ev)
  \/ \E e \in Exchanges : StreamDone(e)
  \/ \E e \in Exchanges, body \in ResponseBodies : ResponseNotOk(e, body)
  \/ \E e \in Exchanges, text \in StreamErrorTexts : StreamError(e, text)
  \/ \E e \in Exchanges : AbortError(e)

SpecNoReset == Init /\ [][NextNoReset]_vars

\* The default options (maxSteps 1, keepLastMessageOnError false), with and
\* without an onError handler, and appends whose attachments are invalid.
InitOnError ==
  /\ messages = <<>>
  /\ status = "ready"
  /\ isLoading = FALSE
  /\ error = NoError
  /\ abortController = Null
  /\ ex = [e \in Exchanges |-> IdleEx]
  /\ nreq = 0
  /\ nev = 0
  /\ last = Ran("init", 0)
  /\ input = ""
  /\ streamData = <<>>
  /\ chatId = "id1"
  /\ initialMessages = <<>>
  /\ initialInput = ""
  /\ headersAtom = NoEntries
  /\ bodyAtom = NoEntries
  /\ prepareRequestBodyFn = FALSE
  /\ onToolCallFn = FALSE
  /\ maxToolRoundtrips = 0
  /\ onFunctionCallFn = FALSE
  /\ onFinishFn = FALSE
  /\ maxSteps = 1
  /\ keepLastMessageOnError = FALSE
  /\ onErrorFn \in BOOLEAN

NextOnError ==
  \/ Next
  \/ appendInvalidAttachments

SpecOnError == InitOnError /\ [][NextOnError]_vars

\* The hook: renders of useChat with changing options, the input field, and
\* exchanges started by append, with the default options of makeChatAtoms.
InitUseChat ==
  /\ messages = <<>>
  /\ status = "ready"
  /\ isLoading = FALSE
  /\ error = NoError
  /\ abortController = Null
  /\ ex = [e \in Exchanges |-> IdleEx]
  /\ nreq = 0
  /\ nev = 0
  /\ last = Ran("init", 0)
  /\ input = ""
  /\ streamData = <<>>
  /\ chatId = "id1"
  /\ initialMessages = <<>>
  /\ initialInput = ""
  /\ headersAtom = NoEntries
  /\ bodyAtom = NoEntries
  /\ prepareRequestBodyFn = FALSE
  /\ onToolCallFn = FALSE
  /\ maxToolRoundtrips = 0
  /\ onFunctionCallFn = FALSE
  /\ onFinishFn = FALSE
  /\ maxSteps = 1
  /\ keepLastMessageOnError = FALSE
  /\ onErrorFn = TRUE

NextUseChat ==
  \/ \E opts \in UseChatOptions : useChat(opts)
  \/ \E v \in Inputs : setInput(v)
  \/ reset
  \/ append
  \/ \E e \in Exchanges : Response(e)
  \/ \E e \in Exchanges : StreamData(e)
  \/ \E e \in Exchanges, text \in StreamErrorTexts : StreamError(e, text)
  \/ \E e \in Exchanges : StreamDone(e)

SpecUseChat == InitUseChat /\ [][NextUseChat]_vars

\* Streams of text: exchanges started by append and resume with the default
\* options, whose streams deliver text deltas that differ and step boundaries.
TextStreamEvents ==
  [type : {"text"}, id : {0}, delta : {"Hello", ","}]
  \cup [type : {"start-step", "finish-step", "finish-message"}, id : {0}, delta : {"none"}]

InitText ==
  /\ messages = <<>>
  /\ status = "ready"
  /\ isLoading = FALSE
  /\ error = NoError
  /\ abortController = Null
  /\ ex = [e \in Exchanges |-> IdleEx]
  /\ nreq = 0
  /\ nev = 0
  /\ last = Ran("init", 0)
  /\ input = ""
  /\ streamData = <<>>
  /\ chatId = "id1"
  /\ initialMessages = <<>>
  /\ initialInput = ""
  /\ headersAtom = NoEntries
  /\ bodyAtom = NoEntries
  /\ prepareRequestBodyFn = FALSE
  /\ onToolCallFn = FALSE
  /\ maxToolRoundtrips = 0
  /\ onFunctionCallFn = FALSE
  /\ maxSteps = 1
  /\ keepLastMessageOnError = FALSE
  /\ onErrorFn = TRUE
  /\ onFinishFn = TRUE

NextText ==
  \/ append
  \/ resume
  \/ \E e \in Exchanges : Response(e)
  \/ \E e \in Exchanges, ev \in TextStreamEvents : StreamEvent(e, ev)
  \/ \E e \in Exchanges, text \in StreamErrorTexts : StreamError(e, text)
  \/ \E e \in Exchanges : StreamDone(e)

SpecText == InitText /\ [][NextText]_vars

\* The requests of a session with headers and an extra body of its own, with
\* and without a prepareRequestBody function, whose calls of append and reload
\* give headers and a body too.
InitRequest ==
  /\ messages = <<>>
  /\ status = "ready"
  /\ isLoading = FALSE
  /\ error = NoError
  /\ abortController = Null
  /\ ex = [e \in Exchanges |-> IdleEx]
  /\ nreq = 0
  /\ nev = 0
  /\ last = Ran("init", 0)
  /\ input = ""
  /\ streamData = <<>>
  /\ chatId = "id1"
  /\ initialMessages = <<>>
  /\ initialInput = ""
  /\ headersAtom \in SessionEntries
  /\ bodyAtom \in SessionEntries
  /\ prepareRequestBodyFn \in BOOLEAN
  /\ onToolCallFn = FALSE
  /\ maxToolRoundtrips = 0
  /\ onFunctionCallFn = FALSE
  /\ maxSteps = 1
  /\ keepLastMessageOnError = FALSE
  /\ onErrorFn = TRUE
  /\ onFinishFn = FALSE

\* The streams of these sessions: the text "Hello".
RequestStreamEvents == [type : {"text"}, id : {0}, delta : {"Hello"}]

NextRequest ==
  \/ \E o \in ChatRequestOptions : appendOptions(o)
  \/ \E o \in ChatRequestOptions : reloadOptions(o)
  \/ resume
  \/ \E e \in Exchanges : Response(e)
  \/ \E e \in Exchanges, ev \in RequestStreamEvents : StreamEvent(e, ev)
  \/ \E e \in Exchanges : StreamDone(e)

SpecRequest == InitRequest /\ [][NextRequest]_vars

\* The sessions with an onToolCall handler that returns a result for every
\* tool call: the chains of requests that append starts.
InitToolCall ==
  /\ messages = <<>>
  /\ status = "ready"
  /\ isLoading = FALSE
  /\ error = NoError
  /\ abortController = Null
  /\ ex = [e \in Exchanges |-> IdleEx]
  /\ nreq = 0
  /\ nev = 0
  /\ last = Ran("init", 0)
  /\ input = ""
  /\ streamData = <<>>
  /\ chatId = "id1"
  /\ initialMessages = <<>>
  /\ initialInput = ""
  /\ headersAtom = NoEntries
  /\ bodyAtom = NoEntries
  /\ prepareRequestBodyFn = FALSE
  /\ onToolCallFn = TRUE
  /\ maxToolRoundtrips = 0
  /\ onFunctionCallFn = FALSE
  /\ maxSteps \in 1..MaxStepsOpt
  /\ keepLastMessageOnError \in BOOLEAN
  /\ onErrorFn = TRUE
  /\ onFinishFn = FALSE

NextToolCall ==
  \/ append
  \/ \E e \in Exchanges : Response(e)
  \/ \E e \in Exchanges, id \in ToolCallIds : StreamToolCall(e, id)
  \/ \E e \in Exchanges, ev \in RequestStreamEvents : StreamEvent(e, ev)
  \/ \E e \in Exchanges : StreamDone(e)
  \/ \E e \in Exchanges, body \in ResponseBodies : ResponseNotOk(e, body)
  \/ \E e \in Exchanges, text \in StreamErrorTexts : StreamError(e, text)

SpecToolCall == InitToolCall /\ [][NextToolCall]_vars

\* ---------------------------------------- the earlier makeChatAtoms
\* packages/jotai-ai/src/make-chat-atoms.ts: no status, no tool results from
\* the caller; every update appends the decoder's message to the request's
\* messages, and the follow-up counts the trailing assistant messages.
InitMCA ==
  /\ messages = <<>>
  /\ status = "ready"
  /\ isLoading = FALSE
  /\ error = NoError
  /\ abortController = Null
  /\ ex = [e \in Exchanges |-> IdleEx]
  /\ nreq = 0
  /\ nev = 0
  /\ last = Ran("init", 0)
  /\ input = ""
  /\ streamData = <<>>
  /\ chatId = "id1"
  /\ initialMessages = <<>>
  /\ initialInput = ""
  /\ headersAtom = NoEntries
  /\ bodyAtom = NoEntries
  /\ prepareRequestBodyFn = FALSE
  /\ onToolCallFn = FALSE
  /\ maxToolRoundtrips = 0
  /\ onFunctionCallFn = FALSE
  /\ onFinishFn = FALSE
  /\ maxSteps \in 1..MaxStepsOpt
  /\ keepLastMessageOnError = FALSE
  /\ onErrorFn = TRUE

SetMCA(s) ==
  /\ s.nreq <= MaxReqMCA
  /\ messages' = s.messages
  /\ isLoading' = s.isLoading
  /\ error' = s.error
  /\ abortController' = s.abortController
  /\ ex' = s.ex
  /\ nreq' = s.nreq
  /\ last' = s.last
  /\ UNCHANGED <<status, maxSteps, keepLastMessageOnError, onErrorFn, onFinishFn,
                 headersAtom, bodyAtom, prepareRequestBodyFn, onToolCallFn,
                 maxToolRoundtrips, onFunctionCallFn>>
  /\ UNCHANGED <<input, streamData, chatId, initialMessages, initialInput>>

\* Lines 294-301 and 207-208: the synchronous part of triggerRequest, with the
\* optimistic update of processResponseStream.
triggerRequestMCA(s, chatRequestMessages, auto) ==
  LET e == s.nreq + 1
      s1 == [s EXCEPT !.isLoading = TRUE, !.error = NoError, !.abortController = e,
                      !.nreq = e, !.messages = chatRequestMessages]
  IN IF e > MaxReqMCA THEN [s EXCEPT !.nreq = e]
     ELSE [s1 EXCEPT !.ex[e] =
             [IdleEx EXCEPT !.phase = "sent", !.by = s.last.op,
                            !.auto = auto, !.requestType = "generate",
                            !.request = callChatApiRequest("generate"),
                            !.prev = chatRequestMessages,
                            !.messageCount = Len(chatRequestMessages)]]

\* The follow-up without its limits on the number of steps.
shouldAutoSubmitUnlimited(ms, messageCount, maxSteps_) ==
  /\ Len(ms) > messageCount
  /\ ms # <<>>
  /\ isAssistantMessageWithCompletedToolCalls(Last(ms))

\* The follow-up after any assistant message, whatever its tool invocations.
shouldAutoSubmitAnyAnswer(ms, messageCount, maxSteps_) ==
  /\ Len(ms) > messageCount
  /\ ms # <<>>
  /\ maxSteps_ > 1
  /\ Last(ms).role = "assistant"
  /\ countTrailingAssistantMessages(ms) < maxSteps_

\* Lines 322-333: the condition of the auto-submit.
shouldAutoSubmit(ms, messageCount, maxSteps_) ==
  /\ Len(ms) > messageCount
  /\ ms # <<>>
  /\ maxSteps_ > 1
  /\ isAssistantMessageWithCompletedToolCalls(Last(ms))
  /\ countTrailingAssistantMessages(ms) < maxSteps_

\* Lines 318-335.
autoSubmitMCA(s, messageCount) ==
  IF shouldAutoSubmit(s.messages, messageCount, maxSteps)
  THEN triggerRequestMCA(s, s.messages, TRUE)
  ELSE s

\* Lines 303, 314-335.
requestSucceededMCA(s, e) ==
  autoSubmitMCA([s EXCEPT !.abortController = Null, !.isLoading = FALSE,
                          !.ex[e] = EndedEx],
                s.ex[e].messageCount)

\* Lines 305-308, 314-316.
requestAbortedMCA(s, e) ==
  [s EXCEPT !.abortController = Detached, !.isLoading = FALSE, !.ex[e] = EndedEx]

\* Lines 310-335.
requestFailedMCA(s, e, err) ==
  autoSubmitMCA([s EXCEPT !.error = err, !.last.onError = onErrorFn, !.isLoading = FALSE,
                          !.ex[e] = EndedEx],
                s.ex[e].messageCount)

\* Lines 266-275: onUpdate.
onUpdateMCA(s, e, message) ==
  [s EXCEPT !.messages = Append(s.ex[e].prev, message)]

ResponseMCA(e) ==
  /\ ex[e].phase = "sent"
  /\ UNCHANGED nev
  /\ SetMCA([Cur("Response", e) EXCEPT !.ex[e] = openStream(@)])

StreamEventMCA(e, ev) ==
  /\ ex[e].phase = "open"
  /\ nev < MaxEvMCA
  /\ WellFormed(ex[e], ev)
  /\ nev' = nev + 1
  /\ LET x == decode(ex[e], ev)
         s0 == [Cur("StreamEvent", e) EXCEPT !.ex[e] = x, !.last.input = ev.type]
     IN IF ev.type = "finish-step" THEN SetMCA(s0)
        ELSE SetMCA(onUpdateMCA([s0 EXCEPT !.ex[e].updated = TRUE], e,
                                [x.msg EXCEPT !.oid = FreshOid(s0)]))

StreamDoneMCA(e) ==
  /\ ex[e].phase = "open"
  /\ UNCHANGED nev
  /\ SetMCA(requestSucceededMCA(Cur("StreamDone", e), e))

ResponseNotOkMCA(e, body) ==
  /\ ex[e].phase = "sent"
  /\ UNCHANGED nev
  /\ SetMCA(requestFailedMCA([Cur("ResponseNotOk", e) EXCEPT !.last.input = body], e,
                             responseErrorMessage(body)))

StreamErrorMCA(e, text) ==
  /\ ex[e].phase = "open"
  /\ UNCHANGED nev
  /\ SetMCA(requestFailedMCA([Cur("StreamError", e) EXCEPT !.last.input = text], e, text))

AbortErrorMCA(e) ==
  /\ ex[e].phase \in {"abortingFetch", "abortingStream"}
  /\ UNCHANGED nev
  /\ SetMCA(requestAbortedMCA(Cur("AbortError", e), e))

\* Lines 338-362.
appendMCA ==
  /\ nreq < MaxReqMCA
  /\ UNCHANGED nev
  /\ SetMCA(triggerRequestMCA(Cur("append", nreq + 1),
                              Append(messages, Msg("user", 0, <<>>)), FALSE))

\* Lines 364-400.
reloadMCA ==
  LET s0 == [Cur("reload", nreq + 1) EXCEPT !.error = NoError]
  IN /\ UNCHANGED nev
     /\ IF messages = <<>> THEN SetMCA([s0 EXCEPT !.last.e = 0])
        ELSE IF Last(messages).role = "assistant"
        THEN SetMCA(triggerRequestMCA(s0, ButLast(messages), FALSE))
        ELSE SetMCA(triggerRequestMCA(s0, messages, FALSE))

\* Lines 431-437.
stopMCA ==
  /\ UNCHANGED nev
  /\ IF abortController = Null THEN SetMCA(Cur("stop", 0))
     ELSE IF abortController = Detached
     THEN SetMCA([Cur("stop", 0) EXCEPT !.abortController = Null])
     ELSE LET e == abortController
              ph == ex[e].phase
          IN SetMCA([Cur("stop", e) EXCEPT
                       !.abortController = Null,
                       !.ex[e].phase = CASE ph = "sent" -> "abortingFetch"
                                         [] ph = "open" -> "abortingStream"
                                         [] OTHER -> ph])

NextMCA ==
  \/ appendMCA
  \/ reloadMCA
  \/ stopMCA
  \/ \E e \in Exchanges : ResponseMCA(e)
  \/ \E e \in Exchanges, ev \in StreamEvents : StreamEventMCA(e, ev)
  \/ \E e \in Exchanges : StreamDoneMCA(e)
  \/ \E e \in Exchanges, body \in ResponseBodies : ResponseNotOkMCA(e, body)
  \/ \E e \in Exchanges, text \in StreamErrorTexts : StreamErrorMCA(e, text)
  \/ \E e \in Exchanges : AbortErrorMCA(e)

SpecMCA == InitMCA /\ [][NextMCA]_vars

\* ------------------------------------------------------------- chatAtoms
\* packages/jotai-ai/src/chat-atoms.ts: no status and no error atom; the
\* request's messages are written to the transcript before the request is
\* sent, the abort controller atom always holds a controller, and the
\* follow-up is limited by maxToolRoundtrips.
InitCA ==
  /\ messages = <<>>
  /\ status = "ready"
  /\ isLoading = FALSE
  /\ error = NoError
  /\ abortController = Detached
  /\ ex = [e \in Exchanges |-> IdleEx]
  /\ nreq = 0
  /\ nev = 0
  /\ last = Ran("init", 0)
  /\ input = ""
  /\ streamData = <<>>
  /\ chatId = "id1"
  /\ initialMessages = <<>>
  /\ initialInput = ""
  /\ headersAtom = NoEntries
  /\ bodyAtom = NoEntries
  /\ prepareRequestBodyFn = FALSE
  /\ onToolCallFn = FALSE
  /\ maxToolRoundtrips \in 0..MaxToolRoundtripsOpt
  /\ onFunctionCallFn = FALSE
  /\ onFinishFn = FALSE
  /\ maxSteps = 1
  /\ keepLastMessageOnError = FALSE
  /\ onErrorFn \in BOOLEAN

SetCA(s) ==
  /\ s.nreq <= MaxReqCA
  /\ messages' = s.messages
  /\ isLoading' = s.isLoading
  /\ abortController' = s.abortController
  /\ streamData' = s.streamData
  /\ ex' = s.ex
  /\ nreq' = s.nreq
  /\ last' = s.last
  /\ UNCHANGED <<status, error, maxSteps, keepLastMessageOnError, onErrorFn, onFinishFn,
                 headersAtom, bodyAtom, prepareRequestBodyFn, onToolCallFn,
                 maxToolRoundtrips, onFunctionCallFn>>
  /\ UNCHANGED <<input, chatId, initialMessages, initialInput>>

\* Lines 210-224 and 120-126: the synchronous part of triggerRequest, with the
\* optimistic update and the reset of the data of getStreamedResponse.
triggerRequestCA(s, chatRequestMessages, auto) ==
  LET e == s.nreq + 1
      s1 == [s EXCEPT !.isLoading = TRUE, !.abortController = e, !.nreq = e,
                      !.messages = chatRequestMessages, !.streamData = <<>>]
  IN IF e > MaxReqCA THEN [s EXCEPT !.nreq = e]
     ELSE [s1 EXCEPT !.ex[e] =
             [IdleEx EXCEPT !.phase = "sent", !.by = s.last.op,
                            !.auto = auto, !.requestType = "generate",
                            !.request = callChatApiRequest("generate"),
                            !.prev = chatRequestMessages,
                            !.messageCount = Len(chatRequestMessages)]]

\* Lines 240-253: the condition of the auto-submit; lastMessage is
\* messages[messageCount - 1], the last message of the request.
shouldAutoSubmitCA(ms, messageCount, maxToolRoundtrips_) ==
  LET lastMessage == IF messageCount \in 1..Len(ms) THEN ms[messageCount] ELSE NoMsg
  IN /\ Len(ms) > messageCount
     /\ lastMessage # NoMsg
     /\ maxToolRoundtrips_ > 0
     /\ isAssistantMessageWithCompletedToolCalls(lastMessage)
     /\ countTrailingAssistantMessages(ms) <= maxToolRoundtrips_

\* Lines 240-258.
autoSubmitCA(s, messageCount) ==
  IF shouldAutoSubmitCA(s.messages, messageCount, maxToolRoundtrips)
  THEN triggerRequestCA(s, s.messages, TRUE)
  ELSE s

\* Lines 225, 236-258: the stream has ended.
requestSucceededCA(s, e) ==
  autoSubmitCA([s EXCEPT !.isLoading = FALSE, !.ex[e] = EndedEx], s.ex[e].messageCount)

\* Lines 227-231, 236-238: the AbortError branch returns.
requestAbortedCA(s, e) ==
  [s EXCEPT !.abortController = Detached, !.isLoading = FALSE, !.ex[e] = EndedEx]

\* Lines 233-258: an Error other than AbortError.
requestFailedCA(s, e) ==
  autoSubmitCA([s EXCEPT !.last.onError = onErrorFn, !.isLoading = FALSE,
                         !.ex[e] = EndedEx],
               s.ex[e].messageCount)

\* Lines 189-204: onUpdate.
onUpdateCA(s, e, message, replaceLastMessage) ==
  LET chatRequestMessages == s.ex[e].prev
  IN [s EXCEPT !.messages =
        Append(IF replaceLastMessage THEN ButLast(chatRequestMessages)
               ELSE chatRequestMessages, message),
               !.streamData = s.ex[e].data]

ResponseCA(e) ==
  /\ ex[e].phase = "sent"
  /\ UNCHANGED nev
  /\ SetCA([Cur("Response", e) EXCEPT !.ex[e] = openStream(@)])

StreamEventCA(e, ev) ==
  /\ ex[e].phase = "open"
  /\ nev < MaxEvCA
  /\ WellFormed(ex[e], ev)
  /\ nev' = nev + 1
  /\ LET x == decode(ex[e], ev)
         s0 == [Cur("StreamEvent", e) EXCEPT !.ex[e] = x, !.last.input = ev.type]
     IN IF ev.type = "finish-step" THEN SetCA(s0)
        ELSE SetCA(onUpdateCA([s0 EXCEPT !.ex[e].updated = TRUE], e,
                              [x.msg EXCEPT !.oid = FreshOid(s0)], x.replace))

StreamDoneCA(e) ==
  /\ ex[e].phase = "open"
  /\ UNCHANGED nev
  /\ SetCA(requestSucceededCA(Cur("StreamDone", e), e))

ResponseNotOkCA(e, body) ==
  /\ ex[e].phase = "sent"
  /\ UNCHANGED nev
  /\ SetCA(requestFailedCA([Cur("ResponseNotOk", e) EXCEPT !.last.input = body], e))

StreamErrorCA(e, text) ==
  /\ ex[e].phase = "open"
  /\ UNCHANGED nev
  /\ SetCA(requestFailedCA([Cur("StreamError", e) EXCEPT !.last.input = text], e))

AbortErrorCA(e) ==
  /\ ex[e].phase \in {"abortingFetch", "abortingStream"}
  /\ UNCHANGED nev
  /\ SetCA(requestAbortedCA(Cur("AbortError", e), e))

\* Lines 261-285 (append).
appendCA ==
  /\ nreq < MaxReqCA
  /\ UNCHANGED nev
  /\ SetCA(triggerRequestCA(Cur("append", nreq + 1),
                            Append(messages, Msg("user", 0, <<>>)), FALSE))

\* Lines 388-420 (reloadAtom).
reloadCA ==
  LET s0 == Cur("reload", nreq + 1)
  IN /\ UNCHANGED nev
     /\ IF messages = <<>> THEN SetCA([s0 EXCEPT !.last.e = 0])
        ELSE IF Last(messages).role = "assistant"
        THEN SetCA(triggerRequestCA(s0, ButLast(messages), FALSE))
        ELSE SetCA(triggerRequestCA(s0, messages, FALSE))

\* Lines 422-424 (stopAtom): abort() of the controller the atom holds.
stopCA ==
  /\ UNCHANGED nev
  /\ IF abortController = Detached THEN SetCA(Cur("stop", 0))
     ELSE LET e == abortController
              ph == ex[e].phase
          IN SetCA([Cur("stop", e) EXCEPT
                      !.ex[e].phase = CASE ph = "sent" -> "abortingFetch"
                                        [] ph = "open" -> "abortingStream"
                                        [] OTHER -> ph])

NextCA ==
  \/ appendCA
  \/ reloadCA
  \/ stopCA
  \/ \E e \in Exchanges : ResponseCA(e)
  \/ \E e \in Exchanges, ev \in StreamEvents : StreamEventCA(e, ev)
  \/ \E e \in Exchanges : StreamDoneCA(e)
  \/ \E e \in Exchanges, body \in ResponseBodies : ResponseNotOkCA(e, body)
  \/ \E e \in Exchanges, text \in StreamErrorTexts : StreamErrorCA(e, text)
  \/ \E e \in Exchanges : AbortErrorCA(e)

SpecCA == InitCA /\ [][NextCA]_vars

\* ------------------------------------------------------ the legacy chatAtoms
\* src/chatAtoms.ts: triggerRequest is a loop of requests; the response is
\* plain text or a function call, streamed in chunks, and the function-call
\* handler decides whether the loop goes on.
InitLegacy ==
  /\ messages = <<>>
  /\ status = "ready"
  /\ isLoading = FALSE
  /\ error = NoError
  /\ abortController = Detached
  /\ ex = [e \in Exchanges |-> IdleEx]
  /\ nreq = 0
  /\ nev = 0
  /\ last = Ran("init", 0)
  /\ input = ""
  /\ streamData = <<>>
  /\ chatId = "id1"
  /\ initialMessages = <<>>
  /\ initialInput = ""
  /\ headersAtom = NoEntries
  /\ bodyAtom = NoEntries
  /\ prepareRequestBodyFn = FALSE
  /\ onToolCallFn = FALSE
  /\ maxToolRoundtrips = 0
  /\ onFunctionCallFn \in BOOLEAN
  /\ onFinishFn = FALSE
  /\ maxSteps = 1
  /\ keepLastMessageOnError = FALSE
  /\ onErrorFn \in BOOLEAN

SetLegacy(s) ==
  /\ s.nreq <= MaxReqLegacy
  /\ messages' = s.messages
  /\ isLoading' = s.isLoading
  /\ abortController' = s.abortController
  /\ ex' = s.ex
  /\ nreq' = s.nreq
  /\ last' = s.last
  /\ UNCHANGED <<status, error, maxSteps, keepLastMessageOnError, onErrorFn, onFinishFn,
                 headersAtom, bodyAtom, prepareRequestBodyFn, onToolCallFn,
                 maxToolRoundtrips, onFunctionCallFn>>
  /\ UNCHANGED <<input, streamData, chatId, initialMessages, initialInput>>

\* The function call of a response message: a string while it is streamed, the
\* parsed object once the stream is complete.
FunctionCallPart(st) ==
  [type |-> "function-call", id |-> 0, state |-> st, step |-> 0, text |-> <<>>,
   result |-> "none"]

\* Lines 213-242 (getStreamedResponse): the request's messages are written to
\* the transcript and the request is sent.
getStreamedResponse(s, chatRequestMessages) ==
  LET e == s.nreq + 1
      s1 == [s EXCEPT !.nreq = e, !.messages = chatRequestMessages]
  IN IF e > MaxReqLegacy THEN [s EXCEPT !.nreq = e]
     ELSE [s1 EXCEPT !.ex[e] =
             [IdleEx EXCEPT !.phase = "sent", !.by = s.last.op,
                            !.requestType = "generate",
                            !.request = callChatApiRequest("generate"),
                            !.prev = chatRequestMessages,
                            !.messageCount = Len(chatRequestMessages)]]

\* Lines 244-261: triggerRequest up to the fetch of the first request of its loop.
triggerRequestLegacy(s, chatRequestMessages) ==
  getStreamedResponse([s EXCEPT !.isLoading = TRUE, !.abortController = s.nreq + 1],
                      chatRequestMessages)

\* Lines 331-351 (append).
appendLegacy ==
  /\ nreq < MaxReqLegacy
  /\ UNCHANGED nev
  /\ SetLegacy(triggerRequestLegacy(Cur("append", nreq + 1),
                                    Append(messages, Msg("user", 0, <<>>))))

\* Lines 104-160: fetch resolves with a response that is ok.
ResponseLegacy(e) ==
  /\ ex[e].phase = "sent"
  /\ UNCHANGED nev
  /\ SetLegacy([Cur("Response", e) EXCEPT
                  !.ex[e].phase = "open", !.ex[e].msg = Msg("assistant", 0, <<>>)])

\* Lines 135-139, 326-329: the response is not ok; the error leaves
\* triggerRequest through its finally, and appendAtom hands it to onError.
ResponseNotOkLegacy(e) ==
  /\ ex[e].phase = "sent"
  /\ UNCHANGED nev
  /\ SetLegacy([Cur("ResponseNotOk", e) EXCEPT
                  !.isLoading = FALSE, !.ex[e] = EndedEx,
                  !.last.onError = onErrorFn, !.last.thrown = ~onErrorFn])

\* Lines 173-195: one chunk of the body; a body that starts with
\* {"function_call": is a function call, any other is the content.
StreamKinds == {"content", "function_call"}
StreamChunkLegacy(e, kind) ==
  /\ ex[e].phase = "open"
  /\ nev < MaxEvLegacy
  /\ ex[e].streamed \in {"none", kind}
  /\ nev' = nev + 1
  /\ LET x == ex[e]
         responseMessage ==
           IF kind = "function_call"
           THEN [x.msg EXCEPT !.parts = <<FunctionCallPart("string")>>]
           ELSE IF x.msg.parts = <<>>
           THEN [x.msg EXCEPT !.parts = <<TextPart(<<"a">>)>>]
           ELSE [x.msg EXCEPT !.parts[1].text = Append(@, "a")]
     IN SetLegacy([Cur("StreamEvent", e) EXCEPT
                     !.last.input = kind,
                     !.ex[e].msg = responseMessage, !.ex[e].streamed = kind,
                     !.ex[e].updated = TRUE,
                     !.messages = Append(x.prev, responseMessage)])

\* Lines 262-325: what the loop does with a complete response: <<>> when the
\* loop breaks, else the messages of the next request, which are those of the
\* request the handler returned (the transcript and the message of the
\* function's result) or, without a handler, those of the request just answered.
nextChatRequest(isFunctionCall, registered, ret, chatRequestMessages, ms) ==
  IF ~isFunctionCall THEN <<>>
  ELSE IF ~registered THEN chatRequestMessages
  ELSE IF ret = "undefined" THEN <<>>
  ELSE Append(ms, Msg("function", 0, <<>>))

\* Lines 196-209 and 262-329: the body has ended; the function call is parsed,
\* the handler, if there is one, is asked, and the loop ends or sends the next
\* request.  ret is what the handler returns.
HandlerResults == {"undefined", "request"}
StreamDoneLegacy(e, ret) ==
  /\ ex[e].phase = "open"
  /\ UNCHANGED nev
  /\ LET x == ex[e]
         isFunctionCall == x.streamed = "function_call"
         asked == isFunctionCall /\ onFunctionCallFn
         responseMessage == [x.msg EXCEPT !.parts = <<FunctionCallPart("object")>>]
         s0 == [Cur("StreamDone", e) EXCEPT
                  !.last.input = x.streamed,
                  !.last.functionCallResponse = IF asked THEN ret ELSE "none",
                  !.ex[e] = EndedEx,
                  !.messages = IF isFunctionCall THEN Append(x.prev, responseMessage)
                               ELSE @]
         next == nextChatRequest(isFunctionCall, onFunctionCallFn, ret, x.prev, s0.messages)
     IN /\ asked \/ ret = "undefined"
        /\ IF next = <<>> THEN SetLegacy([s0 EXCEPT !.isLoading = FALSE])
           ELSE SetLegacy(getStreamedResponse(s0, next))

NextLegacy ==
  \/ appendLegacy
  \/ \E e \in Exchanges : ResponseLegacy(e)
  \/ \E e \in Exchanges : ResponseNotOkLegacy(e)
  \/ \E e \in Exchanges, kind \in StreamKinds : StreamChunkLegacy(e, kind)
  \/ \E e \in Exchanges, ret \in HandlerResults : StreamDoneLegacy(e, ret)

SpecLegacy == InitLegacy /\ [][NextLegacy]_vars

\* ------------------------------------------------------------------ claims
Active(x) == x.phase \in {"sent", "open"}
ActiveExchanges == {e \in Exchanges : Active(ex[e])}

\* C1: the handler that issues the request of an append leaves status
\* submitted, every stream update leaves it streaming, and the handler of the
\* stream's completion sets it to ready (before any follow-up it issues).
C1_StatusOrder ==
  /\ last.op = "append" => status = "submitted"
  /\ (last.op = "StreamEvent" /\ last.input # "finish-step") => status = "streaming"
  /\ last.op = "StreamDone" =>
       \/ status = "ready"
       \/ last.trail # <<>> /\ last.trail[1] = "ready"

\* The only exchange of the run was started by append on the empty transcript,
\* streamed an assistant message and completed.
C1_Witness ==
  /\ last.op = "StreamDone" /\ last.e = 1 /\ nreq = 1
  /\ status = "ready"
  /\ Len(messages) = 2 /\ messages[1].role = "user" /\ messages[2].role = "assistant"

\* C2: at most one exchange is waiting for its response or reading its stream:
\* whatever was in flight when append or reload ran has been cancelled.
C2_AtMostOneInFlight == Cardinality(ActiveExchanges) <= 1

\* C3: stop invoked while status is submitted or streaming leaves no exchange
\* uncancelled, and the end of a cancelled exchange leaves status ready and the
\* error unset without invoking onError.
C3_StopReturnsToReady ==
  /\ (last.op = "stop" /\ status \in {"submitted", "streaming"}) => ActiveExchanges = {}
  /\ last.op = "AbortError" => (status = "ready" /\ error = NoError /\ ~last.onError)

\* C4: a response outside 2xx and an error event of the stream leave status
\* error and the error's message the body text (a generic message for an empty
\* body) or the streamed text.
C4_FailureEndsInError ==
  /\ last.op = "ResponseNotOk" =>
       /\ status = "error"
       /\ error = (IF last.input = "" THEN "Failed to fetch the chat response."
                   ELSE last.input)
  /\ last.op = "StreamError" => (status = "error" /\ error = last.input)

\* C5: under the earlier makeChatAtoms, the transcript never ends with more
\* than maxSteps consecutive assistant messages.
C5_TrailingAssistantBound == countTrailingAssistantMessages(messages) <= maxSteps

\* The automatic follow-up has run with maxSteps 2: the second exchange
\* completed, two assistant messages end the transcript.
C5_Witness ==
  /\ maxSteps = 2
  /\ last.op = "StreamDone" /\ last.e = 2
  /\ countTrailingAssistantMessages(messages) = 2

EndOps == {"StreamDone", "ResponseNotOk", "StreamError"}

\* The claim's four conditions, on the transcript ms and the length n of the
\* message list the exchange was issued with.
C6_Rule(ms, n) ==
  /\ Len(ms) > n
  /\ ms # <<>>
  /\ Last(ms).role = "assistant"
  /\ \E i \in 1..Len(Last(ms).parts) : IsTool(Last(ms).parts[i])
  /\ \A i \in 1..Len(Last(ms).parts) :
       IsTool(Last(ms).parts[i]) => Last(ms).parts[i].state = "result"
  /\ maxSteps > 1
  /\ countTrailingAssistantMessages(ms) < maxSteps

\* C6: under the earlier makeChatAtoms, the handler that ends an exchange by
\* completion or failure issues a follow-up request if and only if the four
\* conditions hold of the transcript it reads.
C6_FollowUpRule ==
  [][\A e \in Exchanges :
       (last'.op \in EndOps /\ last'.e = e /\ Active(ex[e]))
         => ((nreq' = nreq + 1) <=> C6_Rule(messages', Len(ex[e].prev)))]_vars

\* The first exchange completed with a resolved tool call and the follow-up
\* was issued with the transcript.
C6_Witness ==
  /\ last.op = "StreamDone" /\ last.e = 1
  /\ nreq = 2 /\ ex[2].phase = "sent" /\ ex[2].auto
  /\ ex[2].prev = messages /\ Len(messages) = 2

InFlightStatuses == {"submitted", "streaming"}

ToolResultOf(m, id) ==
  LET i == FirstToolIndex(m.parts, id)
  IN IF i = 0 THEN "absent" ELSE m.parts[i].result

Resolved(m) ==
  /\ m.role = "assistant"
  /\ \E i \in 1..Len(m.parts) : IsTool(m.parts[i])
  /\ \A i \in 1..Len(m.parts) : IsTool(m.parts[i]) => m.parts[i].state = "result"

\* C7: addToolResult while status is submitted or streaming writes the result
\* and issues no request; when the exchange then completes with the tool calls
\* of the last message resolved, the follow-up request is issued.
C7_DeferredFollowUp ==
  [][/\ (last'.op = "addToolResult" /\ status \in InFlightStatuses) =>
          /\ nreq' = nreq
          /\ ToolStateOf(Last(messages), last'.id) # "absent"
               => /\ ToolStateOf(Last(messages'), last'.id) = "result"
                  /\ ToolResultOf(Last(messages'), last'.id) = last'.input
     /\ (/\ last.op = "addToolResult" /\ status \in InFlightStatuses
         /\ last'.op = "StreamDone" /\ Resolved(Last(messages)))
          => nreq' = nreq + 1]_vars

\* The tool invocations of the last step of m: at least one, and all resolved.
LastStepResolved(m) ==
  LET k == LastStepStartIndex(m.parts)
      T == {i \in (k + 1)..Len(m.parts) : IsTool(m.parts[i])}
  IN m.role = "assistant" /\ T # {} /\ \A i \in T : m.parts[i].state = "result"

LastAssistantIndex(ms) ==
  LET I == {i \in 1..Len(ms) : ms[i].role = "assistant"}
  IN IF I = {} THEN 0 ELSE MaxOf(I)

Rank(st) ==
  CASE st = "partial-call" -> 1
    [] st = "call" -> 2
    [] st = "result" -> 3
    [] OTHER -> 0

\* C9: a tool invocation that two successive transcripts show in the same
\* message is in no earlier state in the later one.
C9_ToolStateForward ==
  [][\A i \in 1..Len(messages), id \in ToolIds :
       (/\ i <= Len(messages')
        /\ ToolStateOf(messages[i], id) # "absent"
        /\ ToolStateOf(messages'[i], id) # "absent")
         => Rank(ToolStateOf(messages'[i], id)) >= Rank(ToolStateOf(messages[i], id))]_vars

\* C10: the transcript gets shorter only in reload, by one message, and in
\* reset.
C10_LengthMonotone ==
  [][Len(messages') < Len(messages) =>
       \/ last'.op = "reload" /\ Len(messages') = Len(messages) - 1
       \/ last'.op = "reset"]_vars

\* C11: addToolResult is idempotent on the transcript: in the state a call of
\* addToolResult leaves, the transcript a second call with the same toolCallId
\* and result writes is the transcript that is there.
C11_AddToolResultIdempotent ==
  last.op = "addToolResult" =>
    Append(ButLast(messages), updateToolCallResult(Last(messages), last.id, last.input))
      = messages

\* addToolResult has written its result into a tool call of a message that is
\* still being streamed.
C11_Witness ==
  /\ last.op = "addToolResult" /\ status = "streaming"
  /\ ToolStateOf(Last(messages), last.id) = "result"
  /\ ToolResultOf(Last(messages), last.id) = last.input

StatusEdges ==
  {<<"ready", "submitted">>, <<"submitted", "streaming">>, <<"streaming", "ready">>,
   <<"submitted", "error">>, <<"streaming", "error">>, <<"error", "submitted">>}
  \cup {<<st, "ready">> : st \in {"submitted", "streaming", "error"}}

\* The values statusAtom holds in the course of the handler of a step.
StatusWrites == <<status>> \o last'.trail \o <<status'>>

\* C12: every change of status made by a handler other than reset is one of
\* ready->submitted, submitted->streaming, streaming->ready, submitted->error,
\* streaming->error, error->submitted and any->ready.
C12_StatusEdges ==
  [][last'.op # "reset" =>
       \A i \in 1..(Len(StatusWrites) - 1) :
         StatusWrites[i] # StatusWrites[i + 1]
           => <<StatusWrites[i], StatusWrites[i + 1]>> \in StatusEdges]_vars

IsPrefix(s1, s2) == Len(s1) <= Len(s2) /\ SubSeq(s2, 1, Len(s1)) = s1

\* Every part of p1 is in p2, at its place, with at least its text.
PartsRetained(p1, p2) ==
  /\ Len(p1) <= Len(p2)
  /\ \A j \in 1..Len(p1) :
       /\ p2[j].type = p1[j].type
       /\ p2[j].id = p1[j].id
       /\ IsPrefix(p1[j].text, p2[j].text)

\* Every streamed (assistant) message of ms1 is in ms2, at its place, with at
\* least its parts.
StreamedRetained(ms1, ms2) ==
  \A i \in 1..Len(ms1) :
    ms1[i].role = "assistant"
      => /\ i <= Len(ms2)
         /\ ms2[i].role = "assistant"
         /\ PartsRetained(ms1[i].parts, ms2[i].parts)

FailureOps == {"ResponseNotOk", "StreamError"}

\* C13: with keepLastMessageOnError set, the handler of an exchange's failure
\* leaves in the transcript every streamed message and every part of it that
\* was there.
C13_FailureRetainsTranscript ==
  [][(last'.op \in FailureOps /\ keepLastMessageOnError)
       => StreamedRetained(messages, messages')]_vars

\* C14: the handler of the failure of an exchange started by append or reload
\* passes the error to the onError handler when one is registered, and
\* otherwise rejects the promise append or reload returned.
C14_ErrorHandlerOrRethrow ==
  [][\A e \in Exchanges :
       (last'.op \in FailureOps /\ last'.e = e /\ ex[e].by \in {"append", "reload"})
         => /\ onErrorFn => (last'.onError /\ ~last'.thrown)
            /\ ~onErrorFn => last'.thrown]_vars

\* C15: reload of an empty transcript issues no request and writes no message;
\* otherwise it issues one request, with the transcript less its last message
\* when that is an assistant message and with the whole transcript when not,
\* and the transcript it leaves is the list it sent.
C15_Reload ==
  [][last'.op = "reload" =>
       IF messages = <<>> THEN nreq' = nreq /\ messages' = <<>>
       ELSE LET sent == IF Last(messages).role = "assistant"
                        THEN ButLast(messages) ELSE messages
            IN /\ nreq' = nreq + 1
               /\ ex'[nreq'].phase = "sent"
               /\ ex'[nreq'].requestType = "generate"
               /\ ex'[nreq'].prev = sent
               /\ messages' = sent]_vars

\* reload after a completed exchange (no failure restored the transcript): the
\* assistant message is gone and the request carries the user message alone.
C15_Witness ==
  /\ last.op = "reload" /\ last.e = 2
  /\ ~keepLastMessageOnError
  /\ ex[1].phase = "ended" /\ ex[2].phase = "sent" /\ ex[2].by = "reload"
  /\ Len(messages) = 1 /\ messages[1].role = "user"
  /\ ex[2].prev = messages

\* The transcript an update of exchange x writes: the messages of the request
\* and after them the streamed message, which takes the place of the request's
\* last message when that is an assistant message.
UpdatedTranscript(x, ms) ==
  /\ ms # <<>>
  /\ Last(ms).role = "assistant"
  /\ IF x.prev # <<>> /\ Last(x.prev).role = "assistant"
     THEN /\ ButLast(ms) = ButLast(x.prev)
          /\ Len(Last(x.prev).parts) <= Len(Last(ms).parts)
     ELSE ButLast(ms) = x.prev

\* C16 (amended): resume issues a GET of <api>?chatId=<id> and leaves the
\* transcript as it is; every update of the resumed stream leaves status
\* streaming and the transcript the messages resume found followed by the
\* streamed assistant message, which replaces the last of them when that is an
\* assistant message; the completion of the stream sets status ready.
C16_Resume ==
  [][/\ last'.op = "resume" =>
          /\ nreq' = nreq + 1
          /\ ex'[nreq'].request = [method |-> "GET", url |-> "<api>?chatId=<id>"]
          /\ ex'[nreq'].prev = messages
          /\ messages' = messages
          /\ status' = "submitted"
     /\ \A e \in Exchanges : (last'.e = e /\ ex[e].by = "resume") =>
          /\ (last'.op = "StreamEvent" /\ last'.input # "finish-step") =>
               (status' = "streaming" /\ UpdatedTranscript(ex[e], messages'))
          /\ last'.op = "StreamDone" =>
               /\ status' = "ready" \/ (last'.trail # <<>> /\ last'.trail[1] = "ready")
               /\ messages' = messages]_vars

\* The resumed stream has delivered its first update: the assistant message
\* follows the user message that was there.
C16_Witness ==
  /\ last.op = "StreamEvent" /\ last.e = 2 /\ ex[2].by = "resume"
  /\ ex[2].request.method = "GET"
  /\ status = "streaming"
  /\ Len(messages) = 2 /\ messages[1].role = "user" /\ messages[2].role = "assistant"
  /\ ButLast(messages) = ex[2].prev

\* C16: as above, with every update of the resumed stream appending the
\* streamed assistant message after the messages resume found.
C16_ResumeAppends ==
  [][/\ last'.op = "resume" =>
          /\ nreq' = nreq + 1
          /\ ex'[nreq'].request = [method |-> "GET", url |-> "<api>?chatId=<id>"]
          /\ ex'[nreq'].prev = messages
          /\ messages' = messages
          /\ status' = "submitted"
     /\ \A e \in Exchanges : (last'.e = e /\ ex[e].by = "resume") =>
          /\ (last'.op = "StreamEvent" /\ last'.input # "finish-step") =>
               /\ status' = "streaming"
               /\ messages' # <<>>
               /\ Last(messages').role = "assistant"
               /\ ButLast(messages') = ex[e].prev
          /\ last'.op = "StreamDone" =>
               /\ status' = "ready" \/ (last'.trail # <<>> /\ last'.trail[1] = "ready")
               /\ messages' = messages]_vars

\* What reset leaves.
ResetState ==
  /\ messages = initialMessages
  /\ input = initialInput
  /\ streamData = <<>>
  /\ error = NoError
  /\ status = "ready"
  /\ ~isLoading
  /\ abortController = Null

RECURSIVE ContentOfParts(_)
ContentOfParts(parts) ==
  IF parts = <<>> THEN <<>>
  ELSE ContentOfParts(ButLast(parts))
         \o (IF Last(parts).type = "text" THEN Last(parts).text ELSE <<>>)

Content(m) == ContentOfParts(m.parts)

Continues(x) == x.prev # <<>> /\ Last(x.prev).role = "assistant"

C19_FinishOnce ==
  [][/\ last'.finish.called <=> last'.op = "StreamDone"
     /\ \A e \in Exchanges : (last'.op = "StreamDone" /\ last'.e = e) =>
          /\ ex[e].phase = "open" /\ ex'[e].phase = "ended"
          /\ last'.finish.message.role = "assistant"
          /\ last'.finish.message.parts = ex[e].msg.parts
          /\ Content(last'.finish.message)
               = (IF Continues(ex[e]) THEN Content(Last(ex[e].prev)) ELSE <<>>)
                   \o ex[e].deltas
          /\ last'.finish.finishReason = ex[e].finishReason
          /\ last'.finish.usage = ex[e].usage
     /\ \A e \in Exchanges : (last'.op = "StreamEvent" /\ last'.e = e) =>
          /\ ex[e].phase = "open"
          /\ last'.input = "finish-message" =>
               /\ ex'[e].finishReason = "stop"
               /\ ex'[e].usage = [promptTokens |-> 3, completionTokens |-> 1,
                                  totalTokens |-> 4]]_vars

\* The stream of an append delivered "Hello" and its finish message and ended:
\* onFinish got the message that is in the transcript, reason stop and the
\* usage with its total.
C19_Witness ==
  /\ last.op = "StreamDone" /\ last.e = 1 /\ last.finish.called
  /\ Content(last.finish.message) = <<"Hello">>
  /\ Len(messages) = 2 /\ messages[2].parts = last.finish.message.parts
  /\ last.finish.finishReason = "stop"
  /\ last.finish.usage.totalTokens = 4

\* C20: with maxSteps 1 a request is issued only by the handler of a call of
\* append, reload, resume or addToolResult: the handlers of a response, of a
\* stream event and of the end of a stream issue none, whatever the transcript
\* ends with, and no exchange is an automatic follow-up.
CallerOps == {"append", "reload", "resume", "addToolResult"}

C20_SingleCall ==
  [][maxSteps = 1 =>
       /\ last'.op \notin CallerOps => nreq' = nreq
       /\ last'.op \in {"append", "reload", "resume"} => nreq' <= nreq + 1
       /\ \A e \in Exchanges : ~ex'[e].auto]_vars

\* With maxSteps 1 the stream of an append has ended, the transcript is longer
\* than the request's messages and ends with an assistant message whose tool
\* invocations all have results, and the request of the append is the only one.
C20_Witness ==
  /\ maxSteps = 1
  /\ last.op = "StreamDone" /\ last.e = 1
  /\ nreq = 1 /\ ex[1].phase = "ended"
  /\ Len(messages) = 2 /\ messages[1].role = "user"
  /\ uiIsAssistantMessageWithCompletedToolCalls(messages[2])

\* C21: when the exchange of an append fails, with keepLastMessageOnError the
\* user message the append submitted is the last message of the transcript
\* after the failure; without it, and when no update of the stream was applied,
\* the transcript after the failure is the transcript the append found, without
\* the user message.
C21_KeepLastMessageOnError ==
  [][\A e \in Exchanges :
       (last'.op \in {"ResponseNotOk", "StreamError"} /\ last'.e = e
          /\ ex[e].by = "append") =>
         /\ keepLastMessageOnError =>
              (messages' # <<>> /\ Last(messages') = Last(ex[e].prev))
         /\ (~keepLastMessageOnError /\ ~ex[e].updated) =>
              messages' = SubSeq(ex[e].prev, 1, Len(ex[e].prev) - 1)]_vars

C23_FailedFollowUpStops ==
  [][\A e \in Exchanges :
       (last'.op \in {"ResponseNotOk", "StreamError"} /\ last'.e = e
          /\ ex[e].auto /\ Len(messages') <= ex[e].messageCount) =>
         /\ nreq' = nreq
         /\ status' = "error"
         /\ error' # NoError]_vars

\* C24: when stop has run, whatever the status was, and no abort is left to be
\* processed (no exchange awaits the rejection of its aborted request), and
\* when the rejection of an aborted request has been handled, status is ready.
C24_StopLeadsToReady ==
  /\ (last.op = "stop"
        /\ \A e \in Exchanges : ex[e].phase \notin {"abortingFetch", "abortingStream"})
       => status = "ready"
  /\ last.op = "AbortError" => status = "ready"

\* C25: the update of a stream event leaves as transcript the messages of the
\* exchange's request, without the last of them when the update is flagged
\* replace-last, followed by the message of the update.
C25_ReplaceOrAppend ==
  [][\A e \in Exchanges :
       (last'.op = "StreamEvent" /\ last'.e = e
          /\ last'.input \notin {"finish-step", "finish-message"}) =>
         LET prevUIMessages == ex[e].prev
             n == Len(prevUIMessages)
         IN /\ ex'[e].replace = ex[e].replace
            /\ Last(messages').role = "assistant"
            /\ Last(messages').parts = ex'[e].msg.parts
            /\ IF ex[e].replace
               THEN /\ Len(messages') = n
                    /\ \A i \in 1..(n - 1) : messages'[i] = prevUIMessages[i]
               ELSE /\ Len(messages') = n + 1
                    /\ \A i \in 1..n : messages'[i] = prevUIMessages[i]]_vars

\* An update flagged replace-last has been applied: the request had a user
\* message and an assistant message, and the transcript is the user message
\* followed by the message of the update, which is not the request's.
C25_Witness ==
  /\ last.op = "StreamEvent" /\ last.e \in Exchanges
  /\ LET x == ex[last.e]
     IN /\ x.replace /\ x.updated
        /\ Len(x.prev) = 2 /\ x.prev[2].role = "assistant"
        /\ Len(messages) = 2 /\ messages[1] = x.prev[1]
        /\ messages[2].parts = x.msg.parts /\ messages[2].parts # x.prev[2].parts

\* C26: in chatAtoms with maxToolRoundtrips above 0, the completion of the
\* stream of an exchange started by append that left a new assistant message
\* whose tool invocations all have results, within the limit of roundtrips,
\* issues a follow-up request; and an automatic request is issued only while
\* the transcript ends with at most maxToolRoundtrips assistant messages.
C26_ToolRoundtrips ==
  [][/\ \A e \in Exchanges :
          (last'.op = "StreamDone" /\ last'.e = e /\ ex[e].by = "append"
             /\ maxToolRoundtrips > 0
             /\ Len(messages) > ex[e].messageCount
             /\ isAssistantMessageWithCompletedToolCalls(Last(messages))
             /\ countTrailingAssistantMessages(messages) <= maxToolRoundtrips) =>
            (nreq' = nreq + 1 /\ (nreq' <= MaxReqCA => ex'[nreq'].auto))
     /\ \A e \in Exchanges :
          (ex'[e].auto /\ ~ex[e].auto) =>
            countTrailingAssistantMessages(ex'[e].prev) <= maxToolRoundtrips]_vars

\* C27: in the legacy chatAtoms the handler of a complete response issues a
\* request only if the response is a function call and the registered
\* function-call handler returned a chat request; in every other case it issues
\* none and leaves isLoading false.
C27_LoopEnds ==
  [][last'.op = "StreamDone" =>
       LET goesOn == /\ last'.input = "function_call"
                     /\ onFunctionCallFn
                     /\ last'.functionCallResponse = "request"
       IN /\ nreq' > nreq => goesOn
          /\ ~goesOn => (nreq' = nreq /\ ~isLoading')]_vars

\* C28: whenever status is ready or error no exchange waits for its response
\* or reads its stream, so that no update of a stream is still to come.
C28_StatusCoversInFlight ==
  status \in {"ready", "error"} => ActiveExchanges = {}

\* C29: every exchange that waits for its response or reads its stream has its
\* own controller in the abort handle, so that stop can cancel it.
C29_HandleHoldsOwnController ==
  \A e \in ActiveExchanges : abortController = e

\* C30: an update of a stream that arrives right after a reset, hence of an
\* exchange started before it, leaves the transcript, the streaming data and
\* the status as the reset made them.
C30_ResetDiscardsEarlierStreams ==
  [][(last.op = "reset" /\ last'.op = "StreamEvent")
       => /\ messages' = messages
          /\ streamData' = streamData
          /\ status' = status]_vars

\* C31: once an update of a stream has written the transcript, the next step,
\* unless it is a reload or a reset, takes no user message out of it: the
\* transcript holds at least as many user messages after the step as before.
UserMessages(ms) == {i \in DOMAIN ms : ms[i].role = "user"}
C31_UserMessageKept ==
  [][(last.op = "StreamEvent" /\ last'.op \notin {"reload", "reset"})
       => Cardinality(UserMessages(messages')) >= Cardinality(UserMessages(messages))]_vars

\* C32: the handler of the failure of an exchange issues no request and
\* leaves status error with the error set, whatever the exchange has streamed.
C32_NoFollowUpAfterFailure ==
  [][last'.op \in FailureOps
       => /\ nreq' = nreq
          /\ status' = "error"
          /\ error' # NoError]_vars

\* ------------------------------------------- a transport that throws a value
\* Lines 379-393: the catch block with a value that is not an Error and has no
\* name (a string, say): neither branch is taken, the finally block clears
\* isLoading, and the auto-submit check of lines 395-406 follows.
requestRejected(s, e) ==
  LET x == s.ex[e]
      s1 == [s EXCEPT !.isLoading = FALSE, !.ex[e] = EndedEx]
  IN autoSubmit(s1, x.messageCount, x.maxStep, x.requestType)

\* The caller's fetch (line 296) rejects with such a value: callChatApi
\* restores the messages and rethrows it.
FetchRejects(e) ==
  /\ ex[e].phase = "sent"
  /\ UNCHANGED nev
  /\ Set(requestRejected(restoreMessagesOnFailure(Cur("FetchRejects", e), e), e))

NextThrow ==
  \/ NextNoReset
  \/ \E e \in Exchanges : FetchRejects(e)

SpecThrow == Init /\ [][NextThrow]_vars

ExchangeEnds == EndOps \cup {"FetchRejects"}

\* C33: when the handler of the end of an exchange (its stream completed, it
\* failed, it was aborted, the transport threw) has run without issuing a
\* follow-up request, status is ready or error.
C33_ExchangeLeavesInFlight ==
  [][(last'.op \in ExchangeEnds /\ nreq' = nreq) => status' \in {"ready", "error"}]_vars

\* C34: between the handlers, the error is set exactly when status is error.
C34_ErrorIffStatusError ==
  (error # NoError) <=> (status = "error")

\* C35: between the handlers, isLoading is true exactly when status is
\* submitted or streaming.
C35_LoadingIffInFlightStatus ==
  isLoading <=> (status \in {"submitted", "streaming"})

====
